---- MODULE Spec2Model ----
(***************************************************************************)
(* Model of DetecteurIncoherenceTaille.valider_donnees (src/script.py).    *)
(*                                                                         *)
(* A call takes one record `donnees` and either returns a ValidationResult *)
(* or leaves by a Python exception.  The detector keeps no state between   *)
(* calls, so a behaviour is: the caller holds a record (Init), the call    *)
(* runs (Valider).                                                         *)
(*                                                                         *)
(* Numbers.  Heights, weights and measurements are whole centimetres and   *)
(* kilograms, ages whole years.  The code computes with binary floating    *)
(* point; every comparison of the code is modelled by the equivalent       *)
(* comparison on integers (both sides multiplied by the positive           *)
(* denominators).  Ratio bounds are held in hundredths.                    *)
(***************************************************************************)
EXTENDS Integers, Sequences, FiniteSets, TLC

VARIABLES donnees, pc, resultat

vars == <<donnees, pc, resultat>>

-----------------------------------------------------------------------------
(* Python values found in the record: a missing key, None, a number, a str *)
(* (a sequence of one-character strings).                                  *)

Absent == [kind |-> "absent", num |-> 0, str |-> <<>>]
None == [kind |-> "None", num |-> 0, str |-> <<>>]
Num(n) == [kind |-> "num", num |-> n, str |-> <<>>]
Str(s) == [kind |-> "str", num |-> 0, str |-> s]

\* `champ in donnees and donnees[champ]`: the key is there and its value is truthy.
PresentEtVrai(v) ==
    \/ v.kind = "num" /\ v.num # 0
    \/ v.kind = "str" /\ v.str # <<>>

\* str.lower() on the letters the records use.
LowerChar(c) ==
    CASE c = "H" -> "h"
      [] c = "F" -> "f"
      [] c = "O" -> "o"
      [] c = "M" -> "m"
      [] c = "E" -> "e"
      [] OTHER -> c

Lower(s) == [i \in 1..Len(s) |-> LowerChar(s[i])]

homme == <<"h", "o", "m", "m", "e">>
femme == <<"f", "e", "m", "m", "e">>

Max(a, b) == IF a >= b THEN a ELSE b
Min(a, b) == IF a <= b THEN a ELSE b
Abs(a) == IF a >= 0 THEN a ELSE 0 - a

-----------------------------------------------------------------------------
(* Reference tables of __init__.                                           *)

Plage(a0, a1, t0, t1) == [age_min |-> a0, age_max |-> a1, taille_min |-> t0, taille_max |-> t1]

\* self.taille_normale, each sex's entries in insertion order.
taille_normale ==
    (homme :> << Plage(0, 2, 50, 90), Plage(2, 5, 85, 115), Plage(5, 10, 105, 145),
                 Plage(10, 15, 130, 180), Plage(15, 20, 155, 200), Plage(20, 150, 150, 210) >>)
    @@
    (femme :> << Plage(0, 2, 48, 88), Plage(2, 5, 83, 112), Plage(5, 10, 103, 142),
                 Plage(10, 15, 130, 175), Plage(15, 20, 150, 185), Plage(20, 150, 145, 195) >>)

\* self.ratios_normaux, in hundredths.
ratios_normaux ==
    [tour_taille_taille |-> [min |-> 35, max |-> 55],
     envergure_taille |-> [min |-> 98, max |-> 106],
     longueur_jambe_taille |-> [min |-> 45, max |-> 53]]

\* The 0.1 added to and taken from the span-ratio range, in hundredths.
ToleranceEnvergure == 10

-----------------------------------------------------------------------------
(* The accumulator of valider_donnees: erreurs, avertissements, score, and *)
(* the exception that ended the call, if any.                              *)

ScoreInitial == 100
PenaliteChampManquant == 25
PenaliteValeurBase == 20
PenaliteTaille == 15
PenaliteIMCExtreme == 15
PenaliteIMCInhabituel == 5
PenaliteRatio == 10
PenaliteEnvergureAtypique == 3
PenalitePoidsAdulte == 10
PenalitePoidsEnfant == 5
PenaliteCroisee == 10

AccInit == [erreurs |-> <<>>, avertissements |-> <<>>, score |-> ScoreInitial, exc |-> ""]

Msg(code, arg) == <<code, arg>>

\* Variant of Erreur that credits the penalty instead of debiting it.
ErreurMut(acc, msg, pen) ==
    [acc EXCEPT !.erreurs = Append(@, msg), !.score = @ + pen]

\* erreurs.append(...); score -= pen
Erreur(acc, msg, pen) ==
    [acc EXCEPT !.erreurs = Append(@, msg), !.score = @ - pen]

\* avertissements.append(...); score -= pen
Avertissement(acc, msg, pen) ==
    [acc EXCEPT !.avertissements = Append(@, msg), !.score = @ - pen]

Leve(acc, e) == [acc EXCEPT !.exc = e]

\* What the call hands back: ValidationResult(...), or the exception raised.
Retour(valide, err, avert, s) ==
    [exc |-> "", est_valide |-> valide, erreurs |-> err, avertissements |-> avert, score |-> s]

Exception(e) ==
    [exc |-> e, est_valide |-> FALSE, erreurs |-> <<>>, avertissements |-> <<>>, score |-> 0]

-----------------------------------------------------------------------------
(* Step 0: required fields.                                                *)

champs_requis == <<"age", "sexe", "taille", "poids">>

\* Variant of Manquant that forgets the None test.
ManquantMut(d, champ) == d[champ].kind = "absent"

\* champ not in donnees or donnees[champ] is None
Manquant(d, champ) == d[champ].kind \in {"absent", "None"}

RECURSIVE VerifierChampsRequis(_, _, _)
VerifierChampsRequis(d, i, acc) ==
    IF i > Len(champs_requis) THEN acc
    ELSE VerifierChampsRequis(d, i + 1,
            IF Manquant(d, champs_requis[i])
            THEN Erreur(acc, Msg("champ_manquant", champs_requis[i]), PenaliteChampManquant)
            ELSE acc)

-----------------------------------------------------------------------------
(* Step 1: base values.  A comparison of a non-number with a number raises *)
(* TypeError.                                                              *)

AgeMax == 120
TailleMax == 300
PoidsMax == 500

\* Variant of ValeursBase that chains the four tests with elif.
ValeursBaseMut(acc, age, sexe, taille, poids) ==
    IF age.kind # "num" \/ taille.kind # "num" \/ poids.kind # "num"
    THEN Leve(acc, "TypeError")
    ELSE IF age.num < 0 \/ age.num > AgeMax
         THEN Erreur(acc, Msg("age_invalide", ""), PenaliteValeurBase)
         ELSE IF sexe \notin {homme, femme}
         THEN Erreur(acc, Msg("sexe_invalide", ""), PenaliteValeurBase)
         ELSE IF taille.num <= 0 \/ taille.num > TailleMax
         THEN Erreur(acc, Msg("taille_invalide", ""), PenaliteValeurBase)
         ELSE IF poids.num <= 0 \/ poids.num > PoidsMax
         THEN Erreur(acc, Msg("poids_invalide", ""), PenaliteValeurBase)
         ELSE acc

ValeursBase(acc, age, sexe, taille, poids) ==
    IF age.kind # "num" \/ taille.kind # "num" \/ poids.kind # "num"
    THEN Leve(acc, "TypeError")
    ELSE LET a1 == IF age.num < 0 \/ age.num > AgeMax
                   THEN Erreur(acc, Msg("age_invalide", ""), PenaliteValeurBase)
                   ELSE acc
             a2 == IF sexe \notin {homme, femme}
                   THEN Erreur(a1, Msg("sexe_invalide", ""), PenaliteValeurBase)
                   ELSE a1
             a3 == IF taille.num <= 0 \/ taille.num > TailleMax
                   THEN Erreur(a2, Msg("taille_invalide", ""), PenaliteValeurBase)
                   ELSE a2
         IN IF poids.num <= 0 \/ poids.num > PoidsMax
            THEN Erreur(a3, Msg("poids_invalide", ""), PenaliteValeurBase)
            ELSE a3

-----------------------------------------------------------------------------
(* Step 2: height against age and sex.                                     *)

Aucune == [trouve |-> FALSE, min |-> 0, max |-> 0]

\* Variant of the lookup whose intervals are closed at both ends.
RECURSIVE ChercherPlageMut(_, _, _)
ChercherPlageMut(table, i, age) ==
    IF i > Len(table) THEN Aucune
    ELSE IF table[i].age_min <= age /\ age <= table[i].age_max
         THEN [trouve |-> TRUE, min |-> table[i].taille_min, max |-> table[i].taille_max]
         ELSE ChercherPlageMut(table, i + 1, age)

obtenir_plage_tailleMut(age, sexe) ==
    IF sexe \notin DOMAIN taille_normale THEN Aucune
    ELSE ChercherPlageMut(taille_normale[sexe], 1, age)

\* The for loop of _obtenir_plage_taille: the first entry with age_min <= age < age_max.
RECURSIVE ChercherPlage(_, _, _)
ChercherPlage(table, i, age) ==
    IF i > Len(table) THEN Aucune
    ELSE IF table[i].age_min <= age /\ age < table[i].age_max
         THEN [trouve |-> TRUE, min |-> table[i].taille_min, max |-> table[i].taille_max]
         ELSE ChercherPlage(table, i + 1, age)

obtenir_plage_taille(age, sexe) ==
    IF sexe \notin DOMAIN taille_normale THEN Aucune
    ELSE ChercherPlage(taille_normale[sexe], 1, age)

CoherenceTaille(acc, age, sexe, taille) ==
    LET plage_taille == obtenir_plage_taille(age, sexe)
    IN IF plage_taille.trouve /\ (taille < plage_taille.min \/ taille > plage_taille.max)
       THEN Erreur(acc, Msg("taille_incoherente", ""), PenaliteTaille)
       ELSE acc

-----------------------------------------------------------------------------
(* Step 3: body-mass index, imc = poids / ((taille / 100) ** 2).  With     *)
(* taille > 0, imc < s is poids * 10000 < s * taille^2.                    *)

IMCExtremeMin == 10
IMCExtremeMax == 50
IMCInhabituelMin == 13
IMCInhabituelMax == 40

ImcInferieur(poids, taille, seuil) == poids * 10000 < seuil * taille * taille
ImcSuperieur(poids, taille, seuil) == poids * 10000 > seuil * taille * taille

\* Variant of ValidationIMC with a second if in place of the elif.
ValidationIMCMut(acc, poids, taille) ==
    LET a1 == IF ImcInferieur(poids, taille, IMCExtremeMin) \/ ImcSuperieur(poids, taille, IMCExtremeMax)
              THEN Erreur(acc, Msg("imc_extreme", ""), PenaliteIMCExtreme)
              ELSE acc
    IN IF ImcInferieur(poids, taille, IMCInhabituelMin) \/ ImcSuperieur(poids, taille, IMCInhabituelMax)
       THEN Avertissement(a1, Msg("imc_inhabituel", ""), PenaliteIMCInhabituel)
       ELSE a1

ValidationIMC(acc, poids, taille) ==
    IF ImcInferieur(poids, taille, IMCExtremeMin) \/ ImcSuperieur(poids, taille, IMCExtremeMax)
    THEN Erreur(acc, Msg("imc_extreme", ""), PenaliteIMCExtreme)
    ELSE IF ImcInferieur(poids, taille, IMCInhabituelMin) \/ ImcSuperieur(poids, taille, IMCInhabituelMax)
         THEN Avertissement(acc, Msg("imc_inhabituel", ""), PenaliteIMCInhabituel)
         ELSE acc

-----------------------------------------------------------------------------
(* Step 4: body ratios.  mesure / taille < r, with r in hundredths and     *)
(* taille > 0, is mesure * 100 < r * taille.  Dividing a str by a number   *)
(* raises TypeError.                                                       *)

RatioInferieur(mesure, taille, r) == mesure * 100 < r * taille
RatioSuperieur(mesure, taille, r) == mesure * 100 > r * taille

RatioTourTaille(acc, v, taille) ==
    IF acc.exc # "" \/ ~PresentEtVrai(v) THEN acc
    ELSE IF v.kind # "num" THEN Leve(acc, "TypeError")
    ELSE LET r == ratios_normaux.tour_taille_taille
         IN IF RatioInferieur(v.num, taille, r.min) \/ RatioSuperieur(v.num, taille, r.max)
            THEN Erreur(acc, Msg("ratio_tour_taille", ""), PenaliteRatio)
            ELSE acc

\* Variant of RatioEnvergure whose tolerance bounds are excluded (<=, >=).
RatioEnvergureMut(acc, v, taille) ==
    IF acc.exc # "" \/ ~PresentEtVrai(v) THEN acc
    ELSE IF v.kind # "num" THEN Leve(acc, "TypeError")
    ELSE LET r == ratios_normaux.envergure_taille
         IN IF \/ ~RatioSuperieur(v.num, taille, r.min - ToleranceEnvergure)
               \/ ~RatioInferieur(v.num, taille, r.max + ToleranceEnvergure)
            THEN Erreur(acc, Msg("ratio_envergure", ""), PenaliteRatio)
            ELSE IF RatioInferieur(v.num, taille, r.min) \/ RatioSuperieur(v.num, taille, r.max)
                 THEN Avertissement(acc, Msg("envergure_atypique", ""), PenaliteEnvergureAtypique)
                 ELSE acc

RatioEnvergure(acc, v, taille) ==
    IF acc.exc # "" \/ ~PresentEtVrai(v) THEN acc
    ELSE IF v.kind # "num" THEN Leve(acc, "TypeError")
    ELSE LET r == ratios_normaux.envergure_taille
         IN IF \/ RatioInferieur(v.num, taille, r.min - ToleranceEnvergure)
               \/ RatioSuperieur(v.num, taille, r.max + ToleranceEnvergure)
            THEN Erreur(acc, Msg("ratio_envergure", ""), PenaliteRatio)
            ELSE IF RatioInferieur(v.num, taille, r.min) \/ RatioSuperieur(v.num, taille, r.max)
                 THEN Avertissement(acc, Msg("envergure_atypique", ""), PenaliteEnvergureAtypique)
                 ELSE acc

RatioJambe(acc, v, taille) ==
    IF acc.exc # "" \/ ~PresentEtVrai(v) THEN acc
    ELSE IF v.kind # "num" THEN Leve(acc, "TypeError")
    ELSE LET r == ratios_normaux.longueur_jambe_taille
         IN IF RatioInferieur(v.num, taille, r.min) \/ RatioSuperieur(v.num, taille, r.max)
            THEN Erreur(acc, Msg("ratio_jambe", ""), PenaliteRatio)
            ELSE acc

-----------------------------------------------------------------------------
(* Step 5: adult weight for height.  poids_min = 16 * (taille/100)^2 and   *)
(* poids_max = 35 * (taille/100)^2; the factors 0.8 and 1.2 are in tenths. *)

AgeAdulte == 18
imc_min_sain == 16
imc_max_sain == 35
FacteurPoidsMin == 8
FacteurPoidsMax == 12

\* Variant of PoidsAdulte without the factors 0.8 and 1.2.
PoidsAdulteMut(acc, age, poids, taille) ==
    IF acc.exc = "" /\ age >= AgeAdulte
       /\ (\/ poids * 10000 < imc_min_sain * taille * taille
           \/ poids * 10000 > imc_max_sain * taille * taille)
    THEN Erreur(acc, Msg("poids_taille_age", ""), PenalitePoidsAdulte)
    ELSE acc

PoidsAdulte(acc, age, poids, taille) ==
    IF acc.exc = "" /\ age >= AgeAdulte
       /\ (\/ poids * 10000 * 10 < imc_min_sain * FacteurPoidsMin * taille * taille
           \/ poids * 10000 * 10 > imc_max_sain * FacteurPoidsMax * taille * taille)
    THEN Erreur(acc, Msg("poids_taille_age", ""), PenalitePoidsAdulte)
    ELSE acc

-----------------------------------------------------------------------------
(* Step 6: child weight.  The estimate is the fraction num / den.          *)

\* _estimer_poids_enfant (sexe is not read)
estimer_poids_enfant(age, taille) ==
    IF age < 2 THEN [num |-> age * 3 + 7, den |-> 1]
    ELSE IF age < 12 THEN [num |-> age * 2 + 8, den |-> 1]
    ELSE [num |-> 19 * taille * taille, den |-> 10000]

\* abs(poids - poids_attendu) / poids_attendu > 0.5, for poids_attendu > 0
PoidsEnfant(acc, age, poids, taille) ==
    IF acc.exc # "" \/ age >= AgeAdulte THEN acc
    ELSE LET poids_attendu == estimer_poids_enfant(age, taille)
         IN IF poids_attendu.num # 0
               /\ 2 * Abs(poids * poids_attendu.den - poids_attendu.num) > poids_attendu.num
            THEN Avertissement(acc, Msg("poids_inhabituel", ""), PenalitePoidsEnfant)
            ELSE acc

-----------------------------------------------------------------------------
(* Steps 7 and 8: waist and leg against arm span.                          *)

\* Variant of CoherenceCroisee with the comparisons reversed.
CoherenceCroiseeMut(acc, tt, env, jambe) ==
    LET a1 == IF PresentEtVrai(tt) /\ PresentEtVrai(env) /\ tt.num < env.num
              THEN Erreur(acc, Msg("tour_taille_sup_envergure", ""), PenaliteCroisee)
              ELSE acc
    IN IF acc.exc # "" THEN acc
       ELSE IF PresentEtVrai(jambe) /\ PresentEtVrai(env) /\ jambe.num < env.num
            THEN Erreur(a1, Msg("jambe_sup_envergure", ""), PenaliteCroisee)
            ELSE a1

CoherenceCroisee(acc, tt, env, jambe) ==
    LET a1 == IF PresentEtVrai(tt) /\ PresentEtVrai(env) /\ tt.num > env.num
              THEN Erreur(acc, Msg("tour_taille_sup_envergure", ""), PenaliteCroisee)
              ELSE acc
    IN IF acc.exc # "" THEN acc
       ELSE IF PresentEtVrai(jambe) /\ PresentEtVrai(env) /\ jambe.num > env.num
            THEN Erreur(a1, Msg("jambe_sup_envergure", ""), PenaliteCroisee)
            ELSE a1

-----------------------------------------------------------------------------
(* The returns.                                                            *)

\* return ValidationResult(False, erreurs, avertissements, max(0, score))
RetourAnticipe(acc) == Retour(FALSE, acc.erreurs, acc.avertissements, Max(0, acc.score))

\* Variant of Finaliser that also counts warnings against validity.
FinaliserMut(acc) ==
    Retour(Len(acc.erreurs) = 0 /\ Len(acc.avertissements) = 0,
           acc.erreurs, acc.avertissements, Max(0, Min(100, acc.score)))

\* est_valide = len(erreurs) == 0; score = max(0, min(100, score))
Finaliser(acc) ==
    Retour(Len(acc.erreurs) = 0, acc.erreurs, acc.avertissements, Max(0, Min(100, acc.score)))

valider_donnees(d) ==
    LET a0 == VerifierChampsRequis(d, 1, AccInit)
    IN IF a0.erreurs # <<>> THEN RetourAnticipe(a0)
       ELSE IF d.sexe.kind # "str" THEN Exception("AttributeError")
       ELSE LET sexe == Lower(d.sexe.str)
                a1 == ValeursBase(a0, d.age, sexe, d.taille, d.poids)
            IN IF a1.exc # "" THEN Exception(a1.exc)
               ELSE IF a1.erreurs # <<>> THEN RetourAnticipe(a1)
               ELSE LET age == d.age.num
                        taille == d.taille.num
                        poids == d.poids.num
                        a2 == CoherenceTaille(a1, age, sexe, taille)
                        a3 == ValidationIMC(a2, poids, taille)
                        a4 == RatioTourTaille(a3, d.tour_taille, taille)
                        a5 == RatioEnvergure(a4, d.envergure, taille)
                        a6 == RatioJambe(a5, d.longueur_jambe, taille)
                        a7 == PoidsAdulte(a6, age, poids, taille)
                        a8 == PoidsEnfant(a7, age, poids, taille)
                        a9 == CoherenceCroisee(a8, d.tour_taille, d.envergure, d.longueur_jambe)
                    IN IF a9.exc # "" THEN Exception(a9.exc) ELSE Finaliser(a9)

-----------------------------------------------------------------------------
(* The records a caller may pass.  Each grid varies the fields one group   *)
(* of checks reads and holds the others at a few values.                   *)

Nums(S) == {Num(n) : n \in S}

Enregistrements(A, S, T, P, TT, E, J) ==
    [age : A, sexe : S, taille : T, poids : P,
     tour_taille : TT, envergure : E, longueur_jambe : J]

autre == <<"a", "u", "t", "r", "e">>
texte == <<"a", "b", "c">>

\* Largest weight of GrilleIMC, in kg.
MaxPoids == 210

\* Required fields missing, None or of the wrong kind.
GrilleChamps ==
    Enregistrements(
        {Absent, None, Num(25), Num(150), Str(texte)},
        {Absent, None, Str(homme), Str(autre), Num(1)},
        {Absent, None, Num(178), Num(0), Str(texte)},
        {Absent, None, Num(75), Str(texte)},
        {Absent, Num(200), Str(texte)},
        {Absent, Num(178)},
        {Absent, Num(180)})

\* Base values at and around their bounds.
GrilleBase ==
    Enregistrements(
        Nums({0 - 1, 0, 120, 121, 150}),
        {Str(homme), Str(femme), Str(<<"H", "O", "M", "M", "E">>), Str(<<"F", "e", "m", "m", "e">>),
         Str(autre), Str(<<>>)},
        Nums({0 - 5, 0, 1, 170, 300, 301}),
        Nums({0 - 1, 0, 1, 60, 500, 501}),
        {Absent, Num(200), Str(texte)},
        {Absent, Num(178)},
        {Absent, None, Num(180)})

\* Every age of the accepted range, each sex, the heights at and next to
\* every bound of the height table.
TaillesLimites ==
    UNION {{t.taille_min - 1, t.taille_min, t.taille_max, t.taille_max + 1} :
           t \in UNION {{taille_normale[s][i] : i \in 1..Len(taille_normale[s])} :
                        s \in DOMAIN taille_normale}}

GrilleTaille ==
    Enregistrements(Nums(0..AgeMax), {Str(homme), Str(femme)}, Nums(TaillesLimites),
                    {Num(60)}, {Absent}, {Absent}, {Absent})

\* Children and adults, a range of heights, every weight up to MaxPoids.
GrilleIMC ==
    Enregistrements(Nums({1, 5, 11, 12, 17, 18, 30}), {Str(homme)},
                    Nums({50, 100, 125, 150, 160, 170, 180, 200, 250}),
                    Nums(1..MaxPoids), {Absent}, {Absent}, {Absent})

\* Optional measurements at and around the ratio bounds of the two heights.
GrilleRatios ==
    Enregistrements({Num(30)}, {Str(femme)}, Nums({100, 200}), {Num(20), Num(80)},
        {Absent, None, Str(<<>>)} \cup Nums({0, 0 - 5, 34, 35, 55, 56, 69, 70, 110, 111, 120, 250}),
        {Absent, None, Str(texte)} \cup
            Nums({0, 0 - 10, 40, 87, 88, 89, 97, 98, 106, 107, 116, 117,
                  175, 176, 195, 196, 212, 213, 232, 233}),
        {Absent} \cup Nums({0, 44, 45, 53, 54, 89, 90, 106, 107, 120, 240}))

Entrees == GrilleChamps \cup GrilleBase \cup GrilleTaille \cup GrilleIMC \cup GrilleRatios

-----------------------------------------------------------------------------
(* The call.                                                               *)

PasDeResultat == Exception("")

Init ==
    /\ donnees \in Entrees
    /\ pc = "appel"
    /\ resultat = PasDeResultat

\* detecteur.valider_donnees(donnees): the call returns or raises.
Valider ==
    /\ pc = "appel"
    /\ resultat' = valider_donnees(donnees)
    /\ pc' = IF resultat'.exc = "" THEN "retour" ELSE "exception"
    /\ UNCHANGED donnees

Next == Valider

Spec == Init /\ [][Next]_vars

-----------------------------------------------------------------------------
(* Vocabulary of the properties, stated from the record and the result.    *)

Dans(seq, m) == \E i \in 1..Len(seq) : seq[i] = m
Nb(seq, m) == Cardinality({i \in 1..Len(seq) : seq[i] = m})

E(code) == Msg(code, "")

Requis == {"age", "sexe", "taille", "poids"}
ChampsManquants == {c \in Requis : donnees[c].kind \in {"absent", "None"}}

Majuscule(c) ==
    CASE c = "h" -> "H" [] c = "f" -> "F" [] c = "o" -> "O"
      [] c = "m" -> "M" [] c = "e" -> "E" [] OTHER -> c

\* s spells mot, in any mix of upper and lower case.
Epelle(s, mot) ==
    /\ Len(s) = Len(mot)
    /\ \A i \in 1..Len(mot) : s[i] \in {mot[i], Majuscule(mot[i])}

\* The required fields are there with the kinds the docstring gives them.
BienType ==
    /\ ChampsManquants = {}
    /\ donnees.age.kind = "num"
    /\ donnees.sexe.kind = "str"
    /\ donnees.taille.kind = "num"
    /\ donnees.poids.kind = "num"

Viole(code) ==
    CASE code = "age_invalide" -> donnees.age.num < 0 \/ donnees.age.num > 120
      [] code = "sexe_invalide" -> ~(Epelle(donnees.sexe.str, homme) \/ Epelle(donnees.sexe.str, femme))
      [] code = "taille_invalide" -> donnees.taille.num <= 0 \/ donnees.taille.num > 300
      [] code = "poids_invalide" -> donnees.poids.num <= 0 \/ donnees.poids.num > 500

BornesViolees == {c \in {"age_invalide", "sexe_invalide", "taille_invalide", "poids_invalide"} : Viole(c)}

PassePremiereEtape == BienType /\ BornesViolees = {}

AgeR == donnees.age.num
TailleR == donnees.taille.num
PoidsR == donnees.poids.num
SexeR == IF Epelle(donnees.sexe.str, homme) THEN homme ELSE femme

\* The deduction the specification attaches to each message.
Deduction(m) ==
    CASE m[1] = "champ_manquant" -> 25
      [] m[1] \in {"age_invalide", "sexe_invalide", "taille_invalide", "poids_invalide"} -> 20
      [] m[1] \in {"taille_incoherente", "imc_extreme"} -> 15
      [] m[1] \in {"imc_inhabituel", "poids_inhabituel"} -> 5
      [] m[1] = "envergure_atypique" -> 3
      [] OTHER -> 10

RECURSIVE Somme(_)
Somme(seq) == IF seq = <<>> THEN 0 ELSE Deduction(Head(seq)) + Somme(Tail(seq))

\* The score is 100 less the deductions of the messages returned.
ScoreDesMessages ==
    resultat.score = 100 - Somme(resultat.erreurs) - Somme(resultat.avertissements)

-----------------------------------------------------------------------------
\* C1: a record with a required key absent or None returns est_valide = False,
\* exactly one missing-field error per missing key in the order age, sexe,
\* taille, poids, no warning, and the score 100 - 25 * (number missing),
\* whatever the other fields hold.
C1_ChampsRequis ==
    (pc # "appel" /\ ChampsManquants # {}) =>
        LET manquants == SelectSeq(<<"age", "sexe", "taille", "poids">>,
                                   LAMBDA c : c \in ChampsManquants)
        IN /\ pc = "retour"
           /\ resultat.est_valide = FALSE
           /\ resultat.erreurs = [i \in 1..Len(manquants) |-> <<"champ_manquant", manquants[i]>>]
           /\ resultat.avertissements = <<>>
           /\ resultat.score = 100 - 25 * Cardinality(ChampsManquants)

\* A None age and an absent weight beside a height and a waist of the wrong kind.
C1_Witness ==
    /\ pc = "retour"
    /\ donnees.age.kind = "None"
    /\ donnees.poids.kind = "absent"
    /\ donnees.sexe.kind = "str"
    /\ donnees.taille.kind = "str"
    /\ donnees.tour_taille.kind = "str"
    /\ resultat.score = 50

\* C2: a record whose four required fields are present (with their documented
\* kinds) and which violates at least one base bound returns est_valide = False,
\* exactly one error per violated bound (all four bounds are evaluated), no
\* error of a later step, no warning, and the score 100 - 20 * (number
\* violated), whatever the optional fields hold.
C2_ValeursBase ==
    (pc # "appel" /\ BienType /\ BornesViolees # {}) =>
        LET violes == SelectSeq(<<"age_invalide", "sexe_invalide", "taille_invalide", "poids_invalide">>,
                                LAMBDA c : c \in BornesViolees)
        IN /\ pc = "retour"
           /\ resultat.est_valide = FALSE
           /\ resultat.erreurs = [i \in 1..Len(violes) |-> E(violes[i])]
           /\ resultat.avertissements = <<>>
           /\ resultat.score = 100 - 20 * Cardinality(BornesViolees)

\* age = 150 with every other required field in bounds and a waist that is a str.
C2_Witness ==
    /\ pc = "retour"
    /\ donnees.age = Num(150)
    /\ donnees.tour_taille.kind = "str"
    /\ donnees.envergure.kind = "num"
    /\ resultat.erreurs = <<E("age_invalide")>>

\* C3: the call never raises; a malformed record (a required field of an
\* unexpected kind, any value of the optional measurements) ends in a returned
\* result with est_valide = False.
C3_JamaisException ==
    pc # "appel" =>
        /\ pc = "retour"
        /\ (ChampsManquants = {} /\ ~BienType) => resultat.est_valide = FALSE

\* C4: on every return path the score is between 0 and 100.
C4_ScoreBorne ==
    pc = "retour" => (0 <= resultat.score /\ resultat.score <= 100)

\* The early return with all four required fields missing: 100 - 4 * 25.
C4_Witness ==
    /\ pc = "retour"
    /\ Cardinality(ChampsManquants) = 4
    /\ resultat.score = 0

\* C5: on every return path est_valide is true exactly when the error list is
\* empty; warnings alone leave the result valid.
C5_ValideSiAucuneErreur ==
    pc = "retour" => (resultat.est_valide <=> resultat.erreurs = <<>>)

\* A final return with warnings and no error.
C5_Witness ==
    /\ pc = "retour"
    /\ resultat.est_valide
    /\ Len(resultat.avertissements) = 2

\* Each sex's age intervals are pairwise disjoint and cover [0, 150): every
\* age of 0..149 lies in exactly one of them.
TableCouvre ==
    \A s \in DOMAIN taille_normale :
        \A a \in 0..149 :
            Cardinality({i \in 1..Len(taille_normale[s]) :
                            taille_normale[s][i].age_min <= a /\ a < taille_normale[s][i].age_max}) = 1

\* C6: the height table's intervals do not overlap and cover [0, 150); for a
\* record that passed step 1 exactly one interval holds the age,
\* _obtenir_plage_taille returns that interval's range (step 2 is never
\* skipped), and the height error is returned exactly when the height is
\* strictly below the range's min or strictly above its max.
C6_TableDesTailles ==
    /\ TableCouvre
    /\ (pc = "retour" /\ PassePremiereEtape) =>
        LET table == taille_normale[SexeR]
            trouves == {i \in 1..Len(table) :
                           table[i].age_min <= AgeR /\ AgeR < table[i].age_max}
        IN /\ Cardinality(trouves) = 1
           /\ \A i \in trouves :
                /\ obtenir_plage_taille(AgeR, SexeR) =
                      [trouve |-> TRUE, min |-> table[i].taille_min, max |-> table[i].taille_max]
                /\ Nb(resultat.erreurs, E("taille_incoherente")) =
                      IF TailleR < table[i].taille_min \/ TailleR > table[i].taille_max THEN 1 ELSE 0

\* Age 2 is where (0, 2) ends and (2, 5) begins: 84 cm is inside the first
\* range and below the second, and is reported.
C6_Witness ==
    /\ pc = "retour"
    /\ AgeR = 2
    /\ SexeR = homme
    /\ TailleR = 84
    /\ PassePremiereEtape
    /\ Dans(resultat.erreurs, E("taille_incoherente"))

\* The BMI of the record against a bound b, as exact arithmetic on the fields.
IMCSous(b) == PoidsR * 10000 < b * TailleR * TailleR
IMCSur(b) == PoidsR * 10000 > b * TailleR * TailleR
IMCEgal(b) == PoidsR * 10000 = b * TailleR * TailleR

EnvergureSous(r) == donnees.envergure.num * 100 < r * TailleR
EnvergureSur(r) == donnees.envergure.num * 100 > r * TailleR

\* C8: for a record that passed step 1 with a present, non-zero arm span, the
\* ratio envergure / taille has exactly one outcome: below 0.88 or above 1.16,
\* one error (-10) and no span warning; otherwise outside [0.98, 1.06] (0.88
\* and 1.16 included), one warning (-3) and no span-ratio error; otherwise
\* nothing.  An absent, None or zero arm span gives neither.
C8_BandeEnvergure ==
    (pc = "retour" /\ PassePremiereEtape) =>
        LET nerr == Nb(resultat.erreurs, E("ratio_envergure"))
            navert == Nb(resultat.avertissements, E("envergure_atypique"))
            etape == RatioEnvergure(AccInit, donnees.envergure, TailleR)
        IN /\ IF donnees.envergure.kind \in {"absent", "None"} \/ donnees.envergure = Num(0)
              THEN nerr = 0 /\ navert = 0
              ELSE IF EnvergureSous(88) \/ EnvergureSur(116) THEN nerr = 1 /\ navert = 0
              ELSE IF EnvergureSous(98) \/ EnvergureSur(106) THEN nerr = 0 /\ navert = 1
              ELSE nerr = 0 /\ navert = 0
           /\ etape.score = 100 - 10 * nerr - 3 * navert
           /\ ScoreDesMessages

\* A span of exactly 0.88 of the height: the warning, not the error.
C8_Witness ==
    /\ pc = "retour"
    /\ PassePremiereEtape
    /\ donnees.envergure = Num(88)
    /\ TailleR = 100
    /\ Dans(resultat.avertissements, E("envergure_atypique"))
    /\ ~Dans(resultat.erreurs, E("ratio_envergure"))

\* The records of d's result that C9 speaks of.
AdulteSansAlerteIMC(d, r) ==
    /\ r.exc = ""
    /\ d.age.kind = "num" /\ d.age.num >= 18 /\ d.age.num <= 120
    /\ d.taille.kind = "num" /\ d.taille.num > 0 /\ d.taille.num <= 300
    /\ d.poids.kind = "num" /\ d.poids.num > 0 /\ d.poids.num <= 500
    /\ ~Dans(r.erreurs, E("imc_extreme"))
    /\ ~Dans(r.avertissements, E("imc_inhabituel"))

MesurePositive(v) == v.kind = "num" /\ v.num > 0

\* C10: for a record that passed step 1 with positive measurements, the waist
\* exceeds span error comes with the waist-ratio or the span-ratio error, and
\* the leg exceeds span error with the leg-ratio or the span-ratio error.
C10_CroiseesJamaisSeules ==
    (pc = "retour" /\ PassePremiereEtape) =>
        /\ (/\ MesurePositive(donnees.tour_taille) /\ MesurePositive(donnees.envergure)
            /\ Dans(resultat.erreurs, E("tour_taille_sup_envergure")))
           => (\/ Dans(resultat.erreurs, E("ratio_tour_taille"))
               \/ Dans(resultat.erreurs, E("ratio_envergure")))
        /\ (/\ MesurePositive(donnees.longueur_jambe) /\ MesurePositive(donnees.envergure)
            /\ Dans(resultat.erreurs, E("jambe_sup_envergure")))
           => (\/ Dans(resultat.erreurs, E("ratio_jambe"))
               \/ Dans(resultat.erreurs, E("ratio_envergure")))

\* Both cross errors fired, the span ratio itself in range: each comes with
\* its own measurement's ratio error.
C10_Witness ==
    /\ pc = "retour"
    /\ PassePremiereEtape
    /\ MesurePositive(donnees.tour_taille) /\ MesurePositive(donnees.longueur_jambe)
    /\ MesurePositive(donnees.envergure)
    /\ Dans(resultat.erreurs, E("tour_taille_sup_envergure"))
    /\ Dans(resultat.erreurs, E("jambe_sup_envergure"))
    /\ ~Dans(resultat.erreurs, E("ratio_envergure"))
    /\ ~Dans(resultat.avertissements, E("envergure_atypique"))

====
